---- MODULE Spec2Model ----
(***************************************************************************)
(* Model of the crawl orchestration core (package crawler): Crawler.Crawl, *)
(* its worker goroutines, the supervisor goroutine, Crawler.crawlURL, the  *)
(* shared time.Ticker and sync.Map of the Crawler, and the consumer loop   *)
(* of cmd/crawler/main.go.                                                 *)
(*                                                                         *)
(* Strings of the program are sequences of one-character strings.  The     *)
(* characters that occur in a URL are letters, ':', '/', '?' and '#':      *)
(* there is no '%', '@', '[', '.', digit or blank, and a URL holds at most *)
(* one '#'.  A text holds letters, blanks and newlines.                    *)
(*                                                                         *)
(* A Go select is one step that takes any one of the cases that are ready  *)
(* when it runs (the runtime picks among the ready cases at random).       *)
(*                                                                         *)
(* Time passes in units, RateLimit of them per period of the ticker.  The  *)
(* retry loop of OllamaSummarizer.Summarize is part of the worker that     *)
(* calls it; the S_ actions are the same method called directly, by a      *)
(* caller that is not the Crawler.  The renderer finds the same links on   *)
(* the page every time it is asked.                                        *)
(***************************************************************************)
EXTENDS Integers, Sequences, FiniteSets, TLC

(***************************************************************************)
(* Bounds of the model.                                                    *)
(***************************************************************************)
MaxCalls == 2
MaxWorkersBound == 2
MaxDepthBound == 1
\* Config.RateLimit, the period of the ticker, in time units
RateLimit == 2
\* the longest chain of redirects a server answers with
MaxHops == 11

(***************************************************************************)
(* Strings.                                                                *)
(***************************************************************************)
Letters == {"a", "b", "h", "q", "f", "H"}
DigitLike == {"0", "1", "+", "-", "."}
CTL == {"^J"}
\* the white space of the texts
Space == {" ", "^J"}

\* F(e), with e evaluated once
With(e, F(_)) == CHOOSE r \in {F(x) : x \in {e}} : TRUE

ToLowerChar(ch) == IF ch = "H" THEN "h" ELSE ch

\* strings.ToLower
ToLower(s) == [i \in 1..Len(s) |-> ToLowerChar(s[i])]

Contains(s, ch) == \E i \in 1..Len(s) : s[i] = ch

Count(s, ch) == Cardinality({i \in 1..Len(s) : s[i] = ch})

\* strings.IndexByte, 1-based; 0 when ch does not occur
Index(s, ch) ==
    IF Contains(s, ch)
    THEN CHOOSE i \in 1..Len(s) : s[i] = ch /\ \A j \in 1..(i - 1) : s[j] # ch
    ELSE 0

LastIndex(s, ch) ==
    IF Contains(s, ch)
    THEN CHOOSE i \in 1..Len(s) : s[i] = ch /\ \A j \in (i + 1)..Len(s) : s[j] # ch
    ELSE 0

\* strings.Cut: [before, after, found]
Cut(s, ch) ==
    LET i == Index(s, ch)
    IN  IF i = 0
        THEN [before |-> s, after |-> <<>>, found |-> FALSE]
        ELSE [before |-> SubSeq(s, 1, i - 1),
              after  |-> SubSeq(s, i + 1, Len(s)),
              found  |-> TRUE]

HasPrefix(s, p) == Len(s) >= Len(p) /\ SubSeq(s, 1, Len(p)) = p

HasSuffix(s, p) == Len(s) >= Len(p) /\ SubSeq(s, Len(s) - Len(p) + 1, Len(s)) = p

\* strings.TrimRight(s, cutset) for a one-character cutset: s up to its last
\* character that is not ch
TrimRight(s, ch) ==
    SubSeq(s, 1, Cardinality({i \in 1..Len(s) : \E j \in i..Len(s) : s[j] # ch}))

(***************************************************************************)
(* net/url as the crawler uses it: url.Parse, URL.IsAbs, URL.String and    *)
(* URL.ResolveReference, on the strings described above.                  *)
(***************************************************************************)
EmptyURL ==
    [err |-> FALSE, Scheme |-> <<>>, Opaque |-> <<>>, Host |-> <<>>,
     Path |-> <<>>, RawQuery |-> <<>>, ForceQuery |-> FALSE,
     OmitHost |-> FALSE, Fragment |-> <<>>]

ErrURL == [EmptyURL EXCEPT !.err = TRUE]

\* getScheme: where its loop over the characters stops (0: at the end)
schemeStop(raw) ==
    LET stops == {i \in 1..Len(raw) :
                    /\ raw[i] \notin Letters
                    /\ ~(raw[i] \in DigitLike /\ i > 1)}
    IN  IF stops = {} THEN 0 ELSE CHOOSE i \in stops : \A j \in stops : i <= j

\* getScheme: [err, scheme, rest]
getSchemeAt(raw, i) ==
    IF i = 0 \/ raw[i] # ":"
    THEN [err |-> FALSE, scheme |-> <<>>, rest |-> raw]
    ELSE IF i = 1
    THEN [err |-> TRUE, scheme |-> <<>>, rest |-> <<>>]
    ELSE [err |-> FALSE, scheme |-> SubSeq(raw, 1, i - 1),
          rest |-> SubSeq(raw, i + 1, Len(raw))]

getScheme(raw) == With(schemeStop(raw), LAMBDA i : getSchemeAt(raw, i))

\* validOptionalPort: "" or ":" followed by digits only
validOptionalPort(port) ==
    \/ port = <<>>
    \/ /\ port[1] = ":"
       /\ \A i \in 2..Len(port) : port[i] \in {"0", "1"}

\* parseAuthority/parseHost without userinfo and without IP literals
parseHostOK(authority) ==
    LET i == LastIndex(authority, ":")
    IN  i = 0 \/ validOptionalPort(SubSeq(authority, i, Len(authority)))

\* parse: the authority and the path, once scheme and query are split off
parsePath(u0, rest) ==
    IF ~HasPrefix(rest, <<"/">>) /\ u0.Scheme # <<>>
    THEN [u0 EXCEPT !.Opaque = rest]
    ELSE IF ~HasPrefix(rest, <<"/">>) /\ Contains(Cut(rest, "/").before, ":")
    THEN ErrURL
    ELSE IF /\ (u0.Scheme # <<>> \/ ~HasPrefix(rest, <<"/", "/", "/">>))
            /\ HasPrefix(rest, <<"/", "/">>)
    THEN With(Cut(SubSeq(rest, 3, Len(rest)), "/"), LAMBDA c :
            IF parseHostOK(c.before)
            THEN [u0 EXCEPT !.Host = c.before,
                            !.Path = IF c.found THEN <<"/">> \o c.after ELSE <<>>]
            ELSE ErrURL)
    ELSE [u0 EXCEPT !.OmitHost = (u0.Scheme # <<>> /\ HasPrefix(rest, <<"/">>)),
                    !.Path = rest]

\* parse: the query is split off what follows the scheme
parseQuery(scheme, rest) ==
    IF HasSuffix(rest, <<"?">>) /\ Count(rest, "?") = 1
    THEN parsePath([EmptyURL EXCEPT !.Scheme = scheme, !.ForceQuery = TRUE],
                   SubSeq(rest, 1, Len(rest) - 1))
    ELSE With(Cut(rest, "?"), LAMBDA c :
            parsePath([EmptyURL EXCEPT !.Scheme = scheme, !.RawQuery = c.after],
                      c.before))

\* parse(rawURL, viaRequest = false): the URL without its fragment
parseNoFrag(raw) ==
    IF \E i \in 1..Len(raw) : raw[i] \in CTL
    THEN ErrURL
    ELSE IF raw = <<"*">>
    THEN [EmptyURL EXCEPT !.Path = <<"*">>]
    ELSE With(getScheme(raw), LAMBDA gs :
            IF gs.err THEN ErrURL ELSE parseQuery(ToLower(gs.scheme), gs.rest))

\* url.Parse
Parse(raw) ==
    With(Cut(raw, "#"), LAMBDA fc :
        With(parseNoFrag(fc.before), LAMBDA u :
            IF u.err THEN u ELSE [u EXCEPT !.Fragment = fc.after]))

\* URL.IsAbs
IsAbs(u) == u.Scheme # <<>>

\* URL.String
String(u) ==
    LET head == IF u.Scheme # <<>> THEN u.Scheme \o <<":">> ELSE <<>>
        auth == IF u.Scheme # <<>> \/ u.Host # <<>>
                THEN IF u.OmitHost /\ u.Host = <<>>
                     THEN <<>>
                     ELSE (IF u.Host # <<>> \/ u.Path # <<>>
                           THEN <<"/", "/">> ELSE <<>>) \o u.Host
                ELSE <<>>
        slash == IF u.Path # <<>> /\ u.Path[1] # "/" /\ u.Host # <<>>
                 THEN <<"/">> ELSE <<>>
        dot == IF /\ head \o auth \o slash = <<>>
                  /\ Contains(Cut(u.Path, "/").before, ":")
               THEN <<".", "/">> ELSE <<>>
        body == IF u.Opaque # <<>>
                THEN head \o u.Opaque
                ELSE head \o auth \o slash \o dot \o u.Path
        query == IF u.ForceQuery \/ u.RawQuery # <<>>
                 THEN <<"?">> \o u.RawQuery ELSE <<>>
        frag == IF u.Fragment # <<>> THEN <<"#">> \o u.Fragment ELSE <<>>
    IN  body \o query \o frag

\* resolvePath(base, ref) for paths without "." and ".." elements
resolvePath(base, ref) ==
    LET full == IF ref = <<>>
                THEN base
                ELSE IF ref[1] # "/"
                THEN SubSeq(base, 1, LastIndex(base, "/")) \o ref
                ELSE ref
    IN  IF full = <<>>
        THEN <<>>
        ELSE IF full[1] = "/" THEN full ELSE <<"/">> \o full

\* URL.ResolveReference
ResolveReference(base, ref) ==
    LET url == IF ref.Scheme = <<>> THEN [ref EXCEPT !.Scheme = base.Scheme] ELSE ref
    IN  IF ref.Scheme # <<>> \/ ref.Host # <<>>
        THEN [url EXCEPT !.Path = resolvePath(ref.Path, <<>>)]
        ELSE IF ref.Opaque # <<>>
        THEN [url EXCEPT !.Host = <<>>, !.Path = <<>>]
        ELSE
        LET inherit == ref.Path = <<>> /\ ~ref.ForceQuery /\ ref.RawQuery = <<>>
            url1 == IF inherit
                    THEN [url EXCEPT !.RawQuery = base.RawQuery,
                                     !.Fragment = IF ref.Fragment = <<>>
                                                  THEN base.Fragment
                                                  ELSE ref.Fragment]
                    ELSE url
        IN  IF ref.Path = <<>> /\ base.Opaque # <<>>
            THEN [url1 EXCEPT !.Opaque = base.Opaque, !.Host = <<>>, !.Path = <<>>]
            ELSE [url1 EXCEPT !.Host = base.Host,
                              !.Path = resolvePath(base.Path, ref.Path)]

\* strings.Contains(s, sub)
ContainsSub(s, sub) ==
    \E i \in 1..(Len(s) - Len(sub) + 1) : SubSeq(s, i, i + Len(sub) - 1) = sub

(***************************************************************************)
(* The inputs of the model: seeds handed to Crawl, what the HTTP fetch     *)
(* answers, and what the renderer returns.                                 *)
(***************************************************************************)
SeedA == <<"h", ":", "/", "/", "a", "/", "a">>
SeedRel == <<"/", "a">>
SeedBad == <<":", "a">>
Seeds == {SeedA, SeedRel, SeedBad}

LinkB == <<"h", ":", "/", "/", "a", "/", "b">>
LinkBSlash == <<"h", ":", "/", "/", "a", "/", "b", "/">>
LinkLists == {<<>>, <<LinkB, LinkBSlash>>}

\* links of a page with a fragment, a query, a relative path
LinkBFrag == <<"h", ":", "/", "/", "a", "/", "b", "#", "f">>
LinkBQuery == <<"h", ":", "/", "/", "a", "/", "b", "?", "q">>
LinkBSlashQuery == <<"h", ":", "/", "/", "a", "/", "b", "/", "?", "q">>
LinkFragSlash == <<"h", ":", "/", "/", "a", "/", "#", "/">>
LinkRel == <<"/", "b">>
LinkInputs ==
    {SeedA, LinkB, LinkBSlash, LinkBFrag, LinkBQuery, LinkBSlashQuery,
     LinkFragSlash, LinkRel}

\* the pages with two links
LinkPages == {<<u, v>> : u \in LinkInputs, v \in LinkInputs}
Texts == {<<>>, <<"t">>}
SummaryText == <<"s">>

Redirected == <<"h", ":", "/", "/", "b", "/", "a">>
HostFilters == {<<>>, <<"a">>}

\* crawlURL: the len(via) at which CheckRedirect returns its error
RedirectLimit == 10

\* crawlURL: the client's CheckRedirect, given len(via); TRUE: it returns the
\* error "stopped after 10 redirects"
CheckRedirect(via) == via >= RedirectLimit

\* client.Do: before it follows the k-th redirect it calls CheckRedirect with
\* the k requests made so far, and gives up when that returns an error
Stopped(redirects) == \E k \in 1..redirects : CheckRedirect(k)

\* the final URL of a request for urlStr that the server redirects
FinalURL(urlStr, redirects) == IF redirects = 0 THEN urlStr ELSE Redirected

\* what client.Do returns for a request the server answers with the given
\* number of redirects before the final page: an error of the transport or of
\* the context, the error of CheckRedirect, or the final response with its
\* status, resp.Request.URL and content type
Responses(urlStr, redirects) ==
    {[err |-> TRUE, stopped |-> FALSE, ok200 |-> FALSE, final |-> urlStr,
      html |-> FALSE]}
    \cup IF Stopped(redirects)
         THEN {[err |-> TRUE, stopped |-> TRUE, ok200 |-> FALSE,
                final |-> urlStr, html |-> FALSE]}
         ELSE {[err |-> FALSE, stopped |-> FALSE, ok200 |-> FALSE,
                final |-> FinalURL(urlStr, redirects), html |-> TRUE]}
              \cup {[err |-> FALSE, stopped |-> FALSE, ok200 |-> TRUE,
                     final |-> FinalURL(urlStr, redirects), html |-> h] :
                        h \in BOOLEAN}

\* what parser.ParseWithPlaywright returns for a page with the given links
ParseResults(links) ==
    {[err |-> TRUE, Text |-> <<>>, Links |-> <<>>]}
    \cup {[err |-> FALSE, Text |-> t, Links |-> links] : t \in Texts}

\* what makeRequest returns: an error, or a response that may be empty
MakeRequestResults ==
    {[err |-> TRUE, Response |-> <<>>]}
    \cup {[err |-> FALSE, Response |-> r] : r \in {<<>>, SummaryText}}

(***************************************************************************)
(* The state.                                                              *)
(***************************************************************************)
Calls == 1..MaxCalls
WorkerIds == 1..MaxWorkersBound

VARIABLES
    config,      \* Crawler.config: MaxDepth, MaxWorkers, AllowedHost
    call,        \* a call of OllamaSummarizer.Summarize made directly: its
                 \* argument, position, locals and return values, and the
                 \* history of its requests and sleeps
    page,        \* the links the renderer finds on the page it is given
    hops,        \* the redirects the server answers a request with before it
                 \* answers with the final page
    visited,     \* Crawler.visited: the keys of the sync.Map
    limiter,     \* Crawler.limiter.C: the ticks buffered in the ticker's channel
    phase,       \* the time since the ticker's period last began, in time units
    sinceGrant,  \* the time since a worker last received a tick (-1: none did),
                 \* counted up to RateLimit
    callpc,      \* per Crawl call: where the call is
    seed,        \* per Crawl call: seedURL
    cancelled,   \* per Crawl call: whether ctx.Done() is closed
    spawned,     \* per Crawl call: the loop variable i of the spawning loop
    wg,          \* per Crawl call: the WaitGroup counter
    jobs,        \* per Crawl call: the jobs channel's buffer
    jobsClosed,  \* per Crawl call: whether jobs is closed
    results,     \* per Crawl call: the results channel's buffer
    closes,      \* per Crawl call: how many times results was closed
    sup,         \* per Crawl call: the supervisor goroutine
    worker,      \* per Crawl call and worker: the goroutine's position and locals
    delivered,   \* per Crawl call: the Results the consumer's range loop received
    consumerDone,\* per Crawl call: whether the consumer's range loop has ended
    panicked,    \* whether a goroutine panicked (a send on a closed channel)
    published,   \* history, per call: the Results sent on results
    popped,      \* history, per call: the Jobs received from jobs
    pushed,      \* history, per call: the Jobs sent on jobs
    acquired,    \* history, per call: the ticks received from limiter.C
    fetches,     \* history, per call: the requests client.Do sent out
    summarized,  \* history, per call: the errors the calls of Summarize returned
    admitCount   \* history: per key, how often LoadOrStore reported it new

vars == <<config, page, call, hops, visited, limiter, phase, sinceGrant, callpc, seed, cancelled, spawned, wg, jobs,
          jobsClosed, results, closes, sup, worker, delivered, consumerDone,
          panicked, published, popped, pushed, acquired, fetches, summarized, admitCount>>

tickerVars == <<limiter, phase, sinceGrant>>
callVars == <<callpc, seed, spawned>>
chanVars == <<jobs, jobsClosed, results, closes>>
consVars == <<delivered, consumerDone>>
histVars == <<published, popped, pushed, acquired, fetches, summarized,
              admitCount>>

\* the depth every worker passes to crawlURL
JobDepth == 0

\* the capacity of the ticker's channel
TickerCap == 1

\* Summarize: maxAttempts
maxAttempts == 3

NewResult(urlStr, depth) ==
    [URL |-> urlStr, Content |-> <<>>, Links |-> <<>>, Depth |-> depth,
     Summary |-> <<>>, Error |-> "nil"]

\* the local resp of crawlURL before client.Do has returned one
NoResponse == [err |-> TRUE, stopped |-> FALSE, ok200 |-> FALSE, final |-> <<>>, html |-> FALSE]

\* Summarize: const maxLen
maxLen == 12000

\* Summarize: the marker between the two parts of a shortened text, "\n...\n"
Separator == <<"^J", ".", ".", ".", "^J">>

\* a TrimSpace that leaves its argument as it is
TrimSpaceNone(s) == s

\* strings.TrimSpace: s without its leading and trailing white space
TrimSpace(s) ==
    With(Cardinality({i \in 1..Len(s) : \A j \in 1..i : s[j] \in Space}),
         LAMBDA lead :
            With(Cardinality({i \in 1..Len(s) : \A j \in i..Len(s) : s[j] \in Space}),
                 LAMBDA trail :
                    IF lead = Len(s) THEN <<>>
                    ELSE SubSeq(s, lead + 1, Len(s) - trail)))

\* Summarize: text[:maxLen/2] + "\n...\n" + text[len(text)-maxLen/2:] for a
\* text longer than maxLen
Truncate(text) ==
    IF Len(text) > maxLen
    THEN SubSeq(text, 1, maxLen \div 2) \o Separator
         \o SubSeq(text, Len(text) - (maxLen \div 2) + 1, Len(text))
    ELSE text

\* a direct call of Summarize(text) that has not begun
NewCall(text) ==
    [pc |-> "idle", text |-> text, sent |-> <<>>, attempt |-> 0, sleep |-> 0,
     err |-> "nil", summary |-> <<>>, replies |-> <<>>, sleeps |-> <<>>]

\* no direct call of Summarize is made
NoCall == [NewCall(<<>>) EXCEPT !.pc = "unused"]

IdleWorker ==
    [pc |-> "none", res |-> NewResult(<<>>, 0), resp |-> NoResponse,
     final |-> <<>>, text |-> <<>>, plinks |-> <<>>, idx |-> 0, links |-> <<>>,
     attempt |-> 0]

\* the state after crawler.New, for the calls of Crawl that `made` says the
\* program will make, a configuration of `configs` and a page of `pages`
InitWith(configs, made, pages) ==
    /\ config \in configs
    /\ page \in pages
    /\ visited = {}
    /\ limiter = 0
    /\ phase = 0
    /\ sinceGrant = -1
    /\ callpc = [c \in Calls |-> IF c \in made THEN "idle" ELSE "unused"]
    /\ seed = [c \in Calls |-> <<>>]
    /\ cancelled = [c \in Calls |-> FALSE]
    /\ spawned = [c \in Calls |-> 0]
    /\ wg = [c \in Calls |-> 0]
    /\ jobs = [c \in Calls |-> <<>>]
    /\ jobsClosed = [c \in Calls |-> FALSE]
    /\ results = [c \in Calls |-> <<>>]
    /\ closes = [c \in Calls |-> 0]
    /\ sup = [c \in Calls |-> "none"]
    /\ worker = [c \in Calls |-> [w \in WorkerIds |-> IdleWorker]]
    /\ delivered = [c \in Calls |-> <<>>]
    /\ consumerDone = [c \in Calls |-> FALSE]
    /\ panicked = FALSE
    /\ published = [c \in Calls |-> <<>>]
    /\ popped = [c \in Calls |-> 0]
    /\ pushed = [c \in Calls |-> <<>>]
    /\ acquired = [c \in Calls |-> 0]
    /\ fetches = [c \in Calls |-> 0]
    /\ summarized = [c \in Calls |-> <<>>]
    /\ admitCount = [k \in {} |-> 0]

Configs ==
    [MaxDepth : 0..MaxDepthBound,
     MaxWorkers : 0..MaxWorkersBound,
     AllowedHost : HostFilters]

\* main: one Crawler, one call of Crawl
Init ==
    /\ InitWith(Configs, {1}, LinkLists)
    /\ call = NoCall
    /\ hops \in 0..1

\* one Crawler shared by MaxCalls calls of Crawl, each with a context of its
\* own, for the configurations in which a worker gets to the links of a page
\* and a server that does not redirect
SharedConfigs ==
    [MaxDepth : 1..MaxDepthBound,
     MaxWorkers : {1},
     AllowedHost : {<<>>}]

InitShared ==
    /\ InitWith(SharedConfigs, Calls, {<<LinkB, LinkBSlash>>})
    /\ call = NoCall
    /\ hops = 0

\* main, for a page with any two links of LinkInputs, in the configurations
\* in which a worker gets to the links of the page
InitLinks ==
    /\ InitWith(SharedConfigs, {1}, LinkPages)
    /\ call = NoCall
    /\ hops \in 0..1

(***************************************************************************)
(* Crawler.Crawl.                                                          *)
(***************************************************************************)
\* a Crawl that forgets the IsAbs check
SeedValidParseOnly(s) == ~Parse(s).err

\* the seed passes the two checks at the head of Crawl
SeedValid(s) == With(Parse(s), LAMBDA parsedURL : ~parsedURL.err /\ IsAbs(parsedURL))

\* a jobs channel with room for one Job less
JobsCapShort == config.MaxWorkers - 1

\* make(chan string, c.config.MaxWorkers)
JobsCap == config.MaxWorkers

\* a results channel with room for one Result less
ResultsCapShort == config.MaxWorkers - 1

\* make(chan Result, c.config.MaxWorkers)
ResultsCap == config.MaxWorkers

\* Crawl is entered: the seed is checked, and the channels are made
Crawl_Call(c) ==
    /\ callpc[c] = "idle"
    /\ \A d \in Calls : d < c => callpc[d] # "idle"
    /\ \E s \in Seeds :
        /\ seed' = [seed EXCEPT ![c] = s]
        /\ callpc' = [callpc EXCEPT ![c] = IF SeedValid(s) THEN "spawn" ELSE "error"]
    /\ UNCHANGED <<config, page, call, hops, visited, tickerVars, cancelled, spawned, wg, chanVars, sup,
                   worker, consVars, panicked, histVars>>

\* a loop that runs once more: i <= c.config.MaxWorkers
SpawnOneMore(i) == i <= config.MaxWorkers

\* the condition of the loop that starts the workers
SpawnMore(i) == i < config.MaxWorkers

\* one iteration of the loop that starts the workers: wg.Add(1); go func
Crawl_Spawn(c) ==
    /\ callpc[c] = "spawn"
    /\ SpawnMore(spawned[c])
    /\ wg' = [wg EXCEPT ![c] = @ + 1]
    /\ worker' = [worker EXCEPT ![c][spawned[c] + 1].pc = "loop"]
    /\ spawned' = [spawned EXCEPT ![c] = @ + 1]
    /\ UNCHANGED <<config, page, call, hops, visited, tickerVars, callpc, seed, cancelled, chanVars, sup,
                   consVars, panicked, histVars>>

\* the loop is over: go func() { wg.Wait(); close(results) }()
Crawl_GoSupervisor(c) ==
    /\ callpc[c] = "spawn"
    /\ ~SpawnMore(spawned[c])
    /\ sup' = [sup EXCEPT ![c] = "wait"]
    /\ callpc' = [callpc EXCEPT ![c] = "seed"]
    /\ UNCHANGED <<config, page, call, hops, visited, tickerVars, seed, cancelled, spawned, wg, chanVars,
                   worker, consVars, panicked, histVars>>

\* jobs <- seedURL: waits for room in the channel
Crawl_Seed(c) ==
    /\ callpc[c] = "seed"
    /\ Len(jobs[c]) < JobsCap
    /\ jobs' = [jobs EXCEPT ![c] = Append(@, seed[c])]
    /\ pushed' = [pushed EXCEPT ![c] = Append(@, <<seed[c], JobDepth>>)]
    /\ callpc' = [callpc EXCEPT ![c] = "close"]
    /\ UNCHANGED <<config, page, call, hops, visited, tickerVars, seed, cancelled, spawned, wg, jobsClosed,
                   results, closes, sup, worker, consVars, panicked, published,
                   popped, acquired, fetches, summarized, admitCount>>

\* close(jobs); return results, nil
Crawl_Return(c) ==
    /\ callpc[c] = "close"
    /\ jobsClosed' = [jobsClosed EXCEPT ![c] = TRUE]
    /\ callpc' = [callpc EXCEPT ![c] = "returned"]
    /\ UNCHANGED <<config, page, call, hops, visited, tickerVars, seed, cancelled, spawned, wg, jobs,
                   results, closes, sup, worker, consVars, panicked, histVars>>

\* a supervisor that does not wait for the last worker
WaitReturnsEarly(counter) == counter <= 1

\* wg.Wait() returns
WaitReturns(counter) == counter = 0

\* the supervisor: wg.Wait(); close(results)
Sup_Close(c) ==
    /\ sup[c] = "wait"
    /\ WaitReturns(wg[c])
    /\ closes' = [closes EXCEPT ![c] = @ + 1]
    /\ sup' = [sup EXCEPT ![c] = "done"]
    /\ UNCHANGED <<config, page, call, hops, visited, tickerVars, callVars, cancelled, wg, jobs, jobsClosed,
                   results, worker, consVars, panicked, histVars>>

\* the caller cancels the context of call c
Cancel(c) ==
    /\ callpc[c] # "unused"
    /\ ~cancelled[c]
    /\ cancelled' = [cancelled EXCEPT ![c] = TRUE]
    /\ UNCHANGED <<config, page, call, hops, visited, tickerVars, callVars, wg, chanVars, sup, worker,
                   consVars, panicked, histVars>>

\* one time unit passes; when the period of the ticker is over the ticker
\* fires: a tick is buffered unless one is buffered already
Tick ==
    /\ phase' = (phase + 1) % RateLimit
    /\ limiter' = IF phase' = 0 /\ limiter < TickerCap THEN limiter + 1 ELSE limiter
    /\ sinceGrant' = IF sinceGrant \in 0..(RateLimit - 1)
                      THEN sinceGrant + 1
                      ELSE sinceGrant
    /\ UNCHANGED <<config, page, call, hops, visited, callVars, cancelled, wg, chanVars, sup, worker,
                   consVars, panicked, histVars>>

(***************************************************************************)
(* The worker goroutine of Crawl.                                          *)
(***************************************************************************)
ExitedWorker == [IdleWorker EXCEPT !.pc = "exited"]

\* a crawlURL that goes to the request without waiting for a tick
StartJobNoPermit(urlStr, depth) ==
    [IdleWorker EXCEPT !.res = NewResult(urlStr, depth),
                       !.pc = IF depth >= config.MaxDepth THEN "publish" ELSE "fetch"]

\* crawlURL's first lines: the Result, and the depth check
StartJob(urlStr, depth) ==
    [IdleWorker EXCEPT !.res = NewResult(urlStr, depth),
                       !.pc = IF depth >= config.MaxDepth THEN "publish" ELSE "acquire"]

\* the select at the head of the worker's loop
W_Loop(c, w) ==
    /\ worker[c][w].pc = "loop"
    /\ \/ /\ cancelled[c]
          /\ worker' = [worker EXCEPT ![c][w] = ExitedWorker]
          /\ wg' = [wg EXCEPT ![c] = @ - 1]
          /\ UNCHANGED <<jobs, popped>>
       \/ /\ Len(jobs[c]) > 0
          /\ jobs' = [jobs EXCEPT ![c] = Tail(@)]
          /\ popped' = [popped EXCEPT ![c] = @ + 1]
          /\ worker' = [worker EXCEPT ![c][w] = StartJob(Head(jobs[c]), JobDepth)]
          /\ UNCHANGED wg
       \/ /\ Len(jobs[c]) = 0
          /\ jobsClosed[c]
          /\ worker' = [worker EXCEPT ![c][w] = ExitedWorker]
          /\ wg' = [wg EXCEPT ![c] = @ - 1]
          /\ UNCHANGED <<jobs, popped>>
    /\ UNCHANGED <<config, page, call, hops, visited, tickerVars, callVars, cancelled, jobsClosed, results,
                   closes, sup, consVars, panicked, published, pushed, acquired,
                   fetches, summarized, admitCount>>

\* crawlURL: the select on ctx.Done() and c.limiter.C
W_Acquire(c, w) ==
    /\ worker[c][w].pc = "acquire"
    /\ \/ /\ cancelled[c]
          /\ worker' = [worker EXCEPT ![c][w].res.Error = "canceled",
                                      ![c][w].pc = "publish"]
          /\ UNCHANGED <<tickerVars, acquired>>
       \/ /\ limiter > 0
          /\ limiter' = limiter - 1
          /\ sinceGrant' = 0
          /\ UNCHANGED phase
          /\ acquired' = [acquired EXCEPT ![c] = @ + 1]
          /\ worker' = [worker EXCEPT ![c][w].pc = "fetch"]
    /\ UNCHANGED <<config, page, call, hops, visited, callVars, cancelled, wg, chanVars, sup, consVars,
                   panicked, published, popped, pushed, fetches, summarized, admitCount>>

\* a filter that looks for the substring in the whole URL
isAllowedHostAnywhere(urlStr) ==
    config.AllowedHost = <<>> \/ ContainsSub(urlStr, config.AllowedHost)

\* Crawler.isAllowedHost
isAllowedHost(urlStr) ==
    IF config.AllowedHost = <<>>
    THEN TRUE
    ELSE With(Parse(urlStr), LAMBDA parsedURL :
            IF parsedURL.err
            THEN FALSE
            ELSE ContainsSub(parsedURL.Host, config.AllowedHost))

\* crawlURL from the status check to the content type check: the error of
\* the Result
FetchError(resp) ==
    IF ~resp.ok200 THEN "status"
    ELSE IF ~isAllowedHost(resp.final) THEN "host"
    ELSE IF ~resp.html THEN "nonhtml"
    ELSE "nil"

\* the worker's locals after the checks of the response ended with error e
\* ("nil": none)
AfterFetch(me, e, final) ==
    IF e = "nil"
    THEN [me EXCEPT !.final = final, !.resp = NoResponse, !.pc = "render"]
    ELSE [me EXCEPT !.res.Error = e, !.resp = NoResponse, !.pc = "publish"]

\* crawlURL: the request is made and sent, client.Do returns; a cancelled
\* context fails it
W_Fetch(c, w) ==
    /\ worker[c][w].pc = "fetch"
    /\ \E resp \in Responses(worker[c][w].res.URL, hops) :
        /\ cancelled[c] => (resp.err /\ ~resp.stopped)
        /\ worker' = [worker EXCEPT ![c][w] =
                IF resp.err
                THEN [@ EXCEPT !.res.Error = IF resp.stopped THEN "redirects"
                                             ELSE "fetch",
                               !.pc = "publish"]
                ELSE [@ EXCEPT !.resp = resp, !.pc = "check"]]
    /\ fetches' = [fetches EXCEPT ![c] = IF cancelled[c] THEN @ ELSE @ + 1]
    /\ UNCHANGED <<config, page, call, hops, visited, tickerVars, callVars, cancelled, wg, chanVars, sup,
                   consVars, panicked, published, popped, pushed, acquired,
                   summarized, admitCount>>

\* crawlURL: the checks of the status, of the host of resp.Request.URL and
\* of the content type
W_Check(c, w) ==
    /\ worker[c][w].pc = "check"
    /\ \E e \in {FetchError(worker[c][w].resp)} :
        worker' = [worker EXCEPT ![c][w] = AfterFetch(@, e, @.resp.final)]
    /\ UNCHANGED <<config, page, call, hops, visited, tickerVars, callVars, cancelled, wg, chanVars, sup,
                   consVars, panicked, histVars>>

\* crawlURL: parser.ParseWithPlaywright(urlStr)
W_Render(c, w) ==
    /\ worker[c][w].pc = "render"
    /\ \E pr \in ParseResults(page) :
        worker' = [worker EXCEPT
            ![c][w].res.Error = IF pr.err THEN "parse" ELSE "nil",
            ![c][w].final = IF pr.err THEN <<>> ELSE @,
            ![c][w].text = pr.Text,
            ![c][w].plinks = pr.Links,
            ![c][w].idx = IF pr.Links = <<>> THEN 0 ELSE 1,
            ![c][w].pc = IF pr.err THEN "publish"
                         ELSE IF pr.Links = <<>> THEN "summarize" ELSE "links"]
    /\ UNCHANGED <<config, page, call, hops, visited, tickerVars, callVars, cancelled, wg, chanVars, sup,
                   consVars, panicked, histVars>>

\* crawlURL: the link resolved against resp.Request.URL, as a string without
\* trailing slashes
CleanLink(finalStr, link) ==
    With(Parse(link), LAMBDA parsedLink :
        With(IF IsAbs(parsedLink)
             THEN parsedLink
             ELSE With(Parse(finalStr), LAMBDA baseURL :
                     ResolveReference(baseURL, parsedLink)),
             LAMBDA abs :
                With(String(abs), LAMBDA cleanedLink : TrimRight(cleanedLink, "/"))))

\* a Store in place of LoadOrStore: the key is never reported as seen
StoreOnly(m, key) == [map |-> m \cup {key}, loaded |-> FALSE]

\* sync.Map.LoadOrStore(key, true): the map afterwards, and whether key was there
LoadOrStore(m, key) == [map |-> m \cup {key}, loaded |-> key \in m]

\* the history of LoadOrStore calls that reported the key new
CountAdmit(count, key) ==
    [k \in DOMAIN count \cup {key} |->
        IF k = key
        THEN (IF k \in DOMAIN count THEN count[k] ELSE 0) + 1
        ELSE count[k]]

\* the worker's locals after one iteration of the loop over the links;
\* admitted is <<cleanedLink>> when the link was appended, <<>> when not
AfterLink(me, admitted) ==
    IF me.idx = Len(me.plinks)
    THEN [me EXCEPT !.links = @ \o admitted, !.idx = 0, !.plinks = <<>>,
                    !.pc = "summarize"]
    ELSE [me EXCEPT !.links = @ \o admitted, !.idx = @ + 1]

\* crawlURL: one iteration of the loop over parseResult.Links
W_Link(c, w) ==
    /\ worker[c][w].pc = "links"
    /\ \E link \in {worker[c][w].plinks[worker[c][w].idx]} :
        IF Parse(link).err
        THEN /\ worker' = [worker EXCEPT ![c][w] = AfterLink(@, <<>>)]
             /\ UNCHANGED <<visited, admitCount>>
        ELSE \E cleanedLink \in {CleanLink(worker[c][w].final, link)} :
             \E ls \in {LoadOrStore(visited, cleanedLink)} :
                /\ visited' = ls.map
                /\ admitCount' = IF ls.loaded
                                 THEN admitCount
                                 ELSE CountAdmit(admitCount, cleanedLink)
                /\ worker' = [worker EXCEPT ![c][w] =
                        AfterLink(@, IF ls.loaded THEN <<>> ELSE <<cleanedLink>>)]
    /\ UNCHANGED <<config, page, call, hops, tickerVars, callVars, cancelled, wg, chanVars, sup,
                   consVars, panicked, published, popped, pushed, acquired,
                   fetches, summarized>>

\* a crawlURL that returns the error of Summarize as the error of the Job
AfterSummarizeReturnsError(me, err, summary) ==
    [IdleWorker EXCEPT
        !.pc = "publish",
        !.res = IF err = "nil"
                THEN [me.res EXCEPT !.Summary = summary,
                                    !.Content = me.text,
                                    !.Links = me.links]
                ELSE [me.res EXCEPT !.Error = err]]

\* a crawlURL that sets the error of Summarize as the error of the Job and
\* goes on to fill in the Result
AfterSummarizeSetsError(me, err, summary) ==
    [IdleWorker EXCEPT
        !.pc = "publish",
        !.res = [me.res EXCEPT !.Summary = IF err = "nil" THEN summary ELSE <<>>,
                               !.Error = err,
                               !.Content = me.text,
                               !.Links = me.links]]

\* crawlURL's last lines, once Summarize returned err (or was not called):
\* result.Summary, result.Content, result.Links
AfterSummarize(me, err, summary) ==
    [IdleWorker EXCEPT
        !.pc = "publish",
        !.res = [me.res EXCEPT !.Summary = IF err = "nil" THEN summary ELSE <<>>,
                               !.Content = me.text,
                               !.Links = me.links]]

\* Summarize: the text is empty once trimmed
EmptyInput(text) == TrimSpace(text) = <<>>

\* Summarize: the text that goes into the prompt
PromptText(text) == Truncate(TrimSpace(text))

\* Summarize: time.Sleep(time.Duration(attempt) * time.Second), in seconds
SleepSeconds(attempt) == attempt

\* crawlURL: Summarize is called when there is a text; Summarize returns at
\* once for a text that is empty once trimmed, and else gets to its first
\* attempt
W_Summarize(c, w) ==
    /\ worker[c][w].pc = "summarize"
    /\ IF worker[c][w].text = <<>>
       THEN /\ worker' = [worker EXCEPT ![c][w] = AfterSummarize(@, "nil", <<>>)]
            /\ UNCHANGED summarized
       ELSE IF EmptyInput(worker[c][w].text)
       THEN /\ worker' = [worker EXCEPT ![c][w] =
                    AfterSummarize(@, "empty text", <<>>)]
            /\ summarized' = [summarized EXCEPT ![c] = Append(@, "empty text")]
       ELSE /\ worker' = [worker EXCEPT ![c][w].pc = "attempt",
                                        ![c][w].attempt = 1]
            /\ UNCHANGED summarized
    /\ UNCHANGED <<config, page, call, hops, visited, tickerVars, callVars, cancelled, wg, chanVars, sup,
                   consVars, panicked, published, popped, pushed, acquired,
                   fetches, admitCount>>

\* what Summarize returns once makeRequest answered resp in the given
\* attempt; "retry" when it goes on to sleep and try again
SummarizeError(attempt, resp) ==
    IF resp.err
    THEN (IF attempt = maxAttempts THEN "attempts" ELSE "retry")
    ELSE IF resp.Response = <<>> THEN "empty response" ELSE "nil"

\* Summarize: one pass of the retry loop, o.makeRequest(jsonData)
W_Attempt(c, w) ==
    /\ worker[c][w].pc = "attempt"
    /\ \E resp \in MakeRequestResults :
       \E err \in {SummarizeError(worker[c][w].attempt, resp)} :
        IF err = "retry"
        THEN /\ worker' = [worker EXCEPT ![c][w].pc = "backoff"]
             /\ UNCHANGED summarized
        ELSE /\ worker' = [worker EXCEPT ![c][w] =
                    AfterSummarize(@, err, resp.Response)]
             /\ summarized' = [summarized EXCEPT ![c] = Append(@, err)]
    /\ UNCHANGED <<config, page, call, hops, visited, tickerVars, callVars, cancelled, wg, chanVars, sup,
                   consVars, panicked, published, popped, pushed, acquired,
                   fetches, admitCount>>

\* Summarize: time.Sleep(attempt * time.Second) is over; continue
W_Backoff(c, w) ==
    /\ worker[c][w].pc = "backoff"
    /\ worker' = [worker EXCEPT ![c][w].pc = "attempt", ![c][w].attempt = @ + 1]
    /\ UNCHANGED <<config, page, call, hops, visited, tickerVars, callVars, cancelled, wg, chanVars, sup,
                   consVars, panicked, histVars>>

\* the worker's select on ctx.Done() and results <- result
W_Publish(c, w) ==
    /\ worker[c][w].pc = "publish"
    /\ \/ /\ cancelled[c]
          /\ worker' = [worker EXCEPT ![c][w] = ExitedWorker]
          /\ wg' = [wg EXCEPT ![c] = @ - 1]
          /\ UNCHANGED <<results, published, panicked>>
       \/ /\ Len(results[c]) < ResultsCap
          /\ results' = [results EXCEPT ![c] = Append(@, worker[c][w].res)]
          /\ published' = [published EXCEPT ![c] = Append(@, worker[c][w].res)]
          /\ panicked' = (panicked \/ closes[c] > 0)
          /\ worker' = [worker EXCEPT ![c][w] = [IdleWorker EXCEPT !.pc = "loop"]]
          /\ UNCHANGED wg
    /\ UNCHANGED <<config, page, call, hops, visited, tickerVars, callVars, cancelled, jobs, jobsClosed,
                   closes, sup, consVars, popped, pushed, acquired, fetches,
                   summarized, admitCount>>

(***************************************************************************)
(* OllamaSummarizer.Summarize, called directly.                            *)
(***************************************************************************)
crawlerVars ==
    <<config, page, hops, visited, tickerVars, callVars, cancelled, wg, chanVars, sup,
      worker, consVars, panicked, histVars>>

\* Summarize: the trimmed text is empty and the call returns, or the prompt
\* is built and the retry loop begins
S_Call ==
    /\ call.pc = "idle"
    /\ call' = IF EmptyInput(call.text)
               THEN [call EXCEPT !.pc = "done", !.err = "empty text"]
               ELSE [call EXCEPT !.pc = "attempt", !.attempt = 1,
                                 !.sent = PromptText(call.text)]
    /\ UNCHANGED crawlerVars

\* Summarize: one pass of the retry loop, o.makeRequest(jsonData)
S_Attempt ==
    /\ call.pc = "attempt"
    /\ \E resp \in MakeRequestResults :
       \E err \in {SummarizeError(call.attempt, resp)} :
        call' = IF err = "retry"
                THEN [call EXCEPT !.pc = "backoff",
                                  !.replies = Append(@, resp),
                                  !.sleep = SleepSeconds(call.attempt),
                                  !.sleeps = Append(@, SleepSeconds(call.attempt))]
                ELSE [call EXCEPT !.pc = "done",
                                  !.replies = Append(@, resp),
                                  !.err = err,
                                  !.summary = IF err = "nil" THEN resp.Response
                                              ELSE <<>>]
    /\ UNCHANGED crawlerVars

\* Summarize: time.Sleep is over; continue
S_Backoff ==
    /\ call.pc = "backoff"
    /\ call' = [call EXCEPT !.pc = "attempt", !.attempt = @ + 1, !.sleep = 0]
    /\ UNCHANGED crawlerVars

(***************************************************************************)
(* The consumer: for result := range results, in main.                     *)
(***************************************************************************)
\* a range loop that stops as soon as the channel is closed
RangeEndsOnClose(buffer, closed) == closed

\* the range loop ends: the channel is closed and its buffer is empty
RangeEnds(buffer, closed) == closed /\ buffer = <<>>

Consume(c) ==
    /\ callpc[c] = "returned"
    /\ ~consumerDone[c]
    /\ \/ /\ Len(results[c]) > 0
          /\ delivered' = [delivered EXCEPT ![c] = Append(@, Head(results[c]))]
          /\ results' = [results EXCEPT ![c] = Tail(@)]
          /\ UNCHANGED consumerDone
       \/ /\ RangeEnds(results[c], closes[c] > 0)
          /\ consumerDone' = [consumerDone EXCEPT ![c] = TRUE]
          /\ UNCHANGED <<delivered, results>>
    /\ UNCHANGED <<config, page, call, hops, visited, tickerVars, callVars, cancelled, wg, jobs, jobsClosed,
                   closes, sup, worker, panicked, histVars>>

(***************************************************************************)
(* The specifications.                                                     *)
(***************************************************************************)
Next ==
    \/ \E c \in Calls : Crawl_Call(c)
    \/ \E c \in Calls : Crawl_Spawn(c)
    \/ \E c \in Calls : Crawl_GoSupervisor(c)
    \/ \E c \in Calls : Crawl_Seed(c)
    \/ \E c \in Calls : Crawl_Return(c)
    \/ \E c \in Calls : Sup_Close(c)
    \/ \E c \in Calls : Cancel(c)
    \/ Tick
    \/ \E c \in Calls, w \in WorkerIds : W_Loop(c, w)
    \/ \E c \in Calls, w \in WorkerIds : W_Acquire(c, w)
    \/ \E c \in Calls, w \in WorkerIds : W_Fetch(c, w)
    \/ \E c \in Calls, w \in WorkerIds : W_Check(c, w)
    \/ \E c \in Calls, w \in WorkerIds : W_Render(c, w)
    \/ \E c \in Calls, w \in WorkerIds : W_Link(c, w)
    \/ \E c \in Calls, w \in WorkerIds : W_Summarize(c, w)
    \/ \E c \in Calls, w \in WorkerIds : W_Attempt(c, w)
    \/ \E c \in Calls, w \in WorkerIds : W_Backoff(c, w)
    \/ \E c \in Calls, w \in WorkerIds : W_Publish(c, w)
    \/ \E c \in Calls : Consume(c)

Spec == Init /\ [][Next]_vars

SpecShared == InitShared /\ [][Next]_vars

SpecLinks == InitLinks /\ [][Next]_vars

\* the texts Summarize is called with
LongText(n) ==
    [i \in 1..n |-> IF i % 3 = 0 THEN "a" ELSE IF i % 3 = 1 THEN "b" ELSE "h"]

SummarizeTexts ==
    {<<>>, <<" ">>, <<"^J", " ">>, <<"t">>, <<" ", "t", "^J">>, <<"t", " ", "t">>,
     LongText(maxLen \div 2 + 1), LongText(maxLen - 1), LongText(maxLen),
     LongText(maxLen + 1), LongText(maxLen + 2),
     <<" ">> \o LongText(maxLen) \o <<" ">>,
     <<" ">> \o LongText(maxLen + 1) \o <<"^J">>}

\* a program that calls Summarize once, with a text of SummarizeTexts
InitSummarize ==
    /\ InitWith(SharedConfigs, {}, {<<>>})
    /\ hops = 0
    /\ call \in {NewCall(text) : text \in SummarizeTexts}

\* main, for a server that answers with up to MaxHops redirects, in the
\* configurations in which a worker fetches
InitRedirects ==
    /\ InitWith(SharedConfigs, {1}, {<<LinkB, LinkBSlash>>})
    /\ call = NoCall
    /\ hops \in 0..MaxHops

SpecRedirects == InitRedirects /\ [][Next]_vars

NextSummarize == S_Call \/ S_Attempt \/ S_Backoff

SpecSummarize == InitSummarize /\ [][NextSummarize]_vars

(***************************************************************************)
(* Fairness: every goroutine that can take a step is scheduled, every      *)
(* call of a collaborator returns, and the ticker keeps ticking.  The      *)
(* caller is free never to cancel and the consumer never to read.          *)
(***************************************************************************)
WorkerStep(c, w) ==
    \/ W_Loop(c, w)
    \/ W_Acquire(c, w)
    \/ W_Fetch(c, w)
    \/ W_Check(c, w)
    \/ W_Render(c, w)
    \/ W_Link(c, w)
    \/ W_Summarize(c, w)
    \/ W_Attempt(c, w)
    \/ W_Backoff(c, w)
    \/ W_Publish(c, w)

CrawlStep(c) ==
    \/ Crawl_Spawn(c)
    \/ Crawl_GoSupervisor(c)
    \/ Crawl_Seed(c)
    \/ Crawl_Return(c)

Fairness ==
    /\ WF_vars(Tick)
    /\ \A c \in Calls : WF_vars(CrawlStep(c))
    /\ \A c \in Calls : WF_vars(Sup_Close(c))
    /\ \A c \in Calls : \A w \in WorkerIds : WF_vars(WorkerStep(c, w))

FairSpec == Init /\ [][Next]_vars /\ Fairness

(***************************************************************************)
(* The claims.                                                             *)
(***************************************************************************)
Range(s) == {s[i] : i \in 1..Len(s)}

Started(c) == callpc[c] \in {"spawn", "seed", "close", "returned"}

\* C1: every link a Result lists as newly admitted, found by a Job at depth k
\* with k+1 <= MaxDepth, has been pushed into the Frontier as a Job
\* (link, k+1).
C1_AdmittedLinksArePushed ==
    \A c \in Calls : \A i \in 1..Len(published[c]) :
        published[c][i].Depth + 1 <= config.MaxDepth =>
            \A j \in 1..Len(published[c][i].Links) :
                <<published[c][i].Links[j], published[c][i].Depth + 1>>
                    \in Range(pushed[c])

\* C2: once the stream of a call is closed, every Job a worker popped has
\* exactly one Result published: none is dropped, none is published twice.
C2_OneResultPerPoppedJob ==
    \A c \in Calls : closes[c] > 0 => Len(published[c]) = popped[c]

\* C3: a Crawl whose seed does not parse or is not absolute has returned an
\* error; it has started no worker and no supervisor, enqueued no Job, taken
\* no tick, and (when no other call runs on the Crawler) the visited set is
\* as it was.
C3_InvalidSeedRejected ==
    \A c \in Calls :
        (callpc[c] \notin {"unused", "idle"}
         /\ (Parse(seed[c]).err \/ ~IsAbs(Parse(seed[c]))))
        => /\ callpc[c] = "error"
           /\ spawned[c] = 0
           /\ wg[c] = 0
           /\ sup[c] = "none"
           /\ \A w \in WorkerIds : worker[c][w].pc = "none"
           /\ jobs[c] = <<>> /\ pushed[c] = <<>> /\ popped[c] = 0
           /\ results[c] = <<>> /\ closes[c] = 0
           /\ acquired[c] = 0 /\ fetches[c] = 0
           /\ (\A d \in Calls \ {c} : callpc[d] \in {"unused", "idle", "error"})
                => (visited = {} /\ DOMAIN admitCount = {})

\* C3's case: a relative seed was refused
C3_Witness ==
    /\ callpc[1] = "error"
    /\ ~Parse(seed[1]).err
    /\ ~IsAbs(Parse(seed[1]))

\* C4: of the LoadOrStore calls made for one key, by however many workers,
\* exactly one reports the key new; and no location is listed in the Links
\* of two Results, or twice in one.
C4_AdmittedExactlyOnce ==
    /\ DOMAIN admitCount = visited
    /\ \A k \in visited : admitCount[k] = 1
    /\ \A c1 \in Calls, c2 \in Calls :
       \A i1 \in 1..Len(published[c1]), i2 \in 1..Len(published[c2]) :
       \A j1 \in 1..Len(published[c1][i1].Links),
          j2 \in 1..Len(published[c2][i2].Links) :
            published[c1][i1].Links[j1] = published[c2][i2].Links[j2]
                => (c1 = c2 /\ i1 = i2 /\ j1 = j2)

\* C4's case: two workers are in the loop over the same links at the same
\* time, both past the first link; one was told it is new, the other not
C4_Witness ==
    \E c1 \in Calls, c2 \in Calls, w1 \in WorkerIds, w2 \in WorkerIds :
        /\ c1 # c2
        /\ worker[c1][w1].pc = "links" /\ worker[c1][w1].idx = 2
        /\ worker[c2][w2].pc = "links" /\ worker[c2][w2].idx = 2
        /\ worker[c1][w1].plinks = worker[c2][w2].plinks
        /\ worker[c1][w1].links # <<>>
        /\ worker[c2][w2].links = <<>>

\* C5: a Job at depth >= MaxDepth is still fetched: a Result published for it
\* without an error comes from a request that was sent.
C5_DeepJobIsFetched ==
    \A c \in Calls : \A i \in 1..Len(published[c]) :
        (published[c][i].Depth >= config.MaxDepth
         /\ published[c][i].Error = "nil")
        => fetches[c] >= 1

\* C6: no goroutine sends on a closed stream, the stream of a call is closed
\* at most once, and when it is closed every worker of the call was started
\* and has exited.
C6_ClosedOnceAfterWorkers ==
    /\ ~panicked
    /\ \A c \in Calls :
        /\ closes[c] <= 1
        /\ closes[c] = 1 =>
            /\ spawned[c] = config.MaxWorkers
            /\ \A w \in WorkerIds :
                worker[c][w].pc = IF w <= config.MaxWorkers THEN "exited" ELSE "none"

\* C6's case: the stream was closed after two workers ran and one published
C6_Witness ==
    \E c \in Calls :
        /\ closes[c] = 1
        /\ config.MaxWorkers = 2
        /\ Len(published[c]) = 1

\* C7: for a valid seed and MaxWorkers >= 1, the stream is eventually closed,
\* whether or not the context is cancelled and the consumer reads.
C7_StreamEventuallyClosed ==
    \A c \in Calls :
        (Started(c) /\ config.MaxWorkers >= 1) ~> (closes[c] = 1)

\* C7's case: the stream was closed though nobody read the Result in it and
\* nobody cancelled
C7_Witness ==
    \E c \in Calls :
        /\ closes[c] = 1
        /\ ~cancelled[c]
        /\ Len(results[c]) = 1
        /\ delivered[c] = <<>>
        /\ results[c][1].Content # <<>>

\* C8: once the context of a call is cancelled, no worker pops a Job.
C8_NoPopAfterCancel ==
    [][\A c \in Calls : cancelled[c] => popped'[c] = popped[c]]_vars

\* C9: a worker that leaves the rate limiter's select while the context is
\* cancelled has taken no tick, and its Job ends with the cancellation error.
C9_CancelledAcquireTakesNoTick ==
    [][\A c \in Calls, w \in WorkerIds :
        (worker[c][w].pc = "acquire" /\ cancelled[c]
         /\ worker'[c][w].pc # "acquire")
        => /\ acquired'[c] = acquired[c]
           /\ limiter' = limiter
           /\ worker'[c][w].pc = "publish"
           /\ worker'[c][w].res.Error = "canceled"]_vars

\* C10: the Results sent on the stream are those the consumer has received
\* followed by those still buffered, and a consumer whose range loop has
\* ended has received every Result sent.
C10_PublishedAreDelivered ==
    \A c \in Calls :
        /\ published[c] = delivered[c] \o results[c]
        /\ consumerDone[c] => delivered[c] = published[c]

\* C10's case: the context was cancelled, and the consumer drained the
\* stream to its end and holds a Result
C10_Witness ==
    \E c \in Calls :
        /\ cancelled[c]
        /\ consumerDone[c]
        /\ delivered[c] # <<>>

\* C11: once the context of a call is cancelled, a worker inside Summarize
\* starts no backoff wait and no further request attempt.
C11_SummarizeStopsOnCancel ==
    [][\A c \in Calls, w \in WorkerIds :
        cancelled[c] =>
            /\ ~(worker[c][w].pc = "attempt" /\ worker'[c][w].pc = "backoff")
            /\ ~(worker[c][w].pc = "backoff" /\ worker'[c][w].pc = "attempt")]_vars

\* C12: whenever a worker receives a tick, no worker of the Crawler received
\* one less than RateLimit time units before.
C12_GrantsOnePeriodApart ==
    [][\A c \in Calls :
        acquired'[c] > acquired[c] => sinceGrant \in {-1, RateLimit}]_vars

\* worker w of call c is through the loop over the links of the page
LoopDone(c, w) == worker[c][w].pc \in {"summarize", "attempt", "backoff"}

\* C13: normalizing a normalized link changes nothing: every key of the
\* visited map parses and is its own key, whatever the final URL; and two
\* links that differ only by a trailing slash on the path get one key.
C13_NormalizeIdempotent ==
    /\ \A k \in visited : \A f \in {SeedA, Redirected} :
            ~Parse(k).err /\ CleanLink(f, k) = k
    /\ \A c \in Calls, w \in WorkerIds :
        (/\ LoopDone(c, w)
         /\ ~Parse(page[1]).err
         /\ Parse(page[2]) = [Parse(page[1]) EXCEPT !.Path = @ \o <<"/">>])
        => Cardinality(visited) = 1

\* the link as an absolute URL: resolved against the final URL f
Resolved(f, link) ==
    With(Parse(link), LAMBDA parsedLink :
        IF IsAbs(parsedLink)
        THEN parsedLink
        ELSE ResolveReference(Parse(f), parsedLink))

\* scheme, host, path without trailing separators, and query of a URL
Location(u) == <<u.Scheme, u.Host, TrimRight(u.Path, "/"), u.RawQuery>>

\* C14: two links of a page that differ as strings and agree on scheme,
\* host, path without trailing separators and query get one key: once the
\* worker is through the links, one of the two was admitted.
C14_SameLocationSameKey ==
    \A c \in Calls, w \in WorkerIds :
        (/\ LoopDone(c, w)
         /\ page[1] # page[2]
         /\ ~Parse(page[1]).err /\ ~Parse(page[2]).err
         /\ Location(Resolved(worker[c][w].final, page[1]))
                = Location(Resolved(worker[c][w].final, page[2])))
        => /\ CleanLink(worker[c][w].final, page[1])
                = CleanLink(worker[c][w].final, page[2])
           /\ Len(worker[c][w].links) = 1

\* C15: no Result lists the location of the seed of its call among the
\* links newly admitted.
C15_SeedNotAdmittedAgain ==
    \A c \in Calls : \A i \in 1..Len(published[c]) :
        \A j \in 1..Len(published[c][i].Links) :
            published[c][i].Links[j] # CleanLink(seed[c], seed[c])

\* the links a store that is empty when the page is processed admits: of
\* the links that parse, in their order, the first one of every key
FreshAdmitted(f, links) ==
    LET keep == {i \in 1..Len(links) :
                    /\ ~Parse(links[i]).err
                    /\ \A j \in 1..(i - 1) :
                        \/ Parse(links[j]).err
                        \/ CleanLink(f, links[j]) # CleanLink(f, links[i])}
    IN  [k \in 1..Cardinality(keep) |->
            CleanLink(f, links[CHOOSE i \in keep :
                                Cardinality({j \in keep : j <= i}) = k])]

\* C16: the links a call admits do not depend on what other calls on the
\* Crawler recorded: a Result with content lists the links that a store of
\* the call's own admits for the page.
C16_StorePerCall ==
    \A c \in Calls : \A i \in 1..Len(published[c]) :
        (published[c][i].Error = "nil"
         /\ published[c][i].Depth < config.MaxDepth)
        => \E f \in {published[c][i].URL, Redirected} :
             published[c][i].Links = FreshAdmitted(f, page)

\* C17: a Crawl with a valid seed and MaxWorkers >= 1 never waits: whatever
\* the workers and the consumer have done or not done, its next step can be
\* taken; in particular the jobs channel has room for the seed.
C17_CrawlNeverBlocks ==
    \A c \in Calls :
        (Started(c) /\ config.MaxWorkers >= 1)
        => /\ callpc[c] = "seed" => Len(jobs[c]) < JobsCap
           /\ callpc[c] = "returned" => pushed[c] = <<<<seed[c], JobDepth>>>>

\* C17's case: Crawl has returned while the seed is still queued, no worker
\* has taken it and nothing was read from the stream
C17_Witness ==
    \E c \in Calls :
        /\ callpc[c] = "returned"
        /\ Len(jobs[c]) = 1
        /\ popped[c] = 0
        /\ delivered[c] = <<>>

\* the workers of call c that were started and have not exited
Live(c) == {w \in WorkerIds : worker[c][w].pc \notin {"none", "exited"}}

\* C18: a call starts MaxWorkers workers, no more and, once the loop is
\* over, no less; at most MaxWorkers are live, at most MaxWorkers Jobs are
\* queued and at most MaxWorkers Results are buffered.
C18_PoolAndBuffersBounded ==
    \A c \in Calls :
        /\ spawned[c] <= config.MaxWorkers
        /\ callpc[c] \in {"seed", "close", "returned"} =>
                spawned[c] = config.MaxWorkers
        /\ Cardinality({w \in WorkerIds : worker[c][w].pc # "none"}) = spawned[c]
        /\ Cardinality(Live(c)) <= config.MaxWorkers
        /\ Len(jobs[c]) <= config.MaxWorkers
        /\ Len(results[c]) <= config.MaxWorkers

\* C18's case: two workers of a call are live while a Job is queued
C18_Witness ==
    \E c \in Calls :
        /\ config.MaxWorkers = 2
        /\ Cardinality(Live(c)) = 2
        /\ Len(jobs[c]) = 1

\* worker w of call c leaves the checks of a response whose final URL has a
\* host without the configured substring
LeavesCheckOffHost(c, w) ==
    /\ worker[c][w].pc = "check"
    /\ worker'[c][w].pc # "check"
    /\ config.AllowedHost # <<>>
    /\ ~ContainsSub(Parse(worker[c][w].resp.final).Host, config.AllowedHost)

\* crawlURL returns the non-allowed-host Result: no content, no links, no
\* summary, no call of the renderer or the summarizer, visited as it was
ReturnsHostError(c, w) ==
    /\ worker'[c][w].pc = "publish"
    /\ worker'[c][w].res =
            [NewResult(worker[c][w].res.URL, worker[c][w].res.Depth)
                EXCEPT !.Error = "host"]
    /\ visited' = visited
    /\ summarized' = summarized

\* C19 as stated: whatever the response, a final URL whose host lacks the
\* configured substring gives the non-allowed-host Result; and without a
\* configured substring no Result has that error.
C19_HostErrorWhateverStatus ==
    [][\A c \in Calls, w \in WorkerIds :
        /\ LeavesCheckOffHost(c, w) => ReturnsHostError(c, w)
        /\ config.AllowedHost = <<>> => worker'[c][w].res.Error # "host"]_vars

\* C19, amended: a response with status 200 whose final URL has a host
\* without the configured substring gives the non-allowed-host Result; and
\* without a configured substring no Result has that error.
C19_HostErrorOnStatusOK ==
    [][\A c \in Calls, w \in WorkerIds :
        /\ (LeavesCheckOffHost(c, w) /\ worker[c][w].resp.ok200)
            => ReturnsHostError(c, w)
        /\ config.AllowedHost = <<>> => worker'[c][w].res.Error # "host"]_vars

\* C19's case: a Result with the non-allowed-host error was published for
\* a seed on an allowed host, after a redirect to another host
C19_Witness ==
    \E c \in Calls :
        /\ config.AllowedHost # <<>>
        /\ Len(published[c]) = 1
        /\ published[c][1].Error = "host"
        /\ ContainsSub(Parse(published[c][1].URL).Host, config.AllowedHost)

\* C20: when the renderer succeeded and Summarize failed (all maxAttempts
\* requests failed, or the response was empty), the Result published for
\* the Job has no error, an empty summary, the text of the page as content
\* and the admitted links of the page as links.
C20_SummaryFailureKeepsContent ==
    \A c \in Calls :
        (Len(summarized[c]) = 1 /\ summarized[c][1] # "nil"
         /\ Len(published[c]) = 1)
        => /\ published[c][1].Error = "nil"
           /\ published[c][1].Summary = <<>>
           /\ published[c][1].Content \in Texts \ {<<>>}
           /\ \E f \in {published[c][1].URL, Redirected} :
                published[c][1].Links = FreshAdmitted(f, page)

\* C20's case: every attempt failed, and the Result is published with a
\* link in it
C20_Witness ==
    \E c \in Calls :
        /\ summarized[c] = <<"attempts">>
        /\ Len(published[c]) = 1
        /\ published[c][1].Links # <<>>

\* C21: one call of Summarize makes at most 3 requests and stops at the first
\* one that succeeds; it sleeps 1 second after the first failure and 2 seconds
\* after the second, and never after its last request; and, its input not
\* being empty, it returns an error only when all 3 requests have failed.
C21_ErrorOnlyAfterThreeFailures ==
    /\ Len(call.replies) <= 3
    /\ \A i \in 1..(Len(call.replies) - 1) : call.replies[i].err
    /\ \A i \in 1..Len(call.sleeps) : call.sleeps[i] = i
    /\ Len(call.sleeps) <= 2
    /\ call.pc \in {"attempt", "backoff"} => Len(call.sleeps) = Len(call.replies)
    /\ (call.pc = "done" /\ call.replies # <<>>)
            => Len(call.sleeps) = Len(call.replies) - 1
    /\ (call.pc = "done" /\ call.err \notin {"nil", "empty text"})
            => /\ Len(call.replies) = 3
               /\ \A i \in 1..3 : call.replies[i].err

\* the text cut to a ceiling: its first half-ceiling characters, the marker,
\* its last half-ceiling characters
HeadTail(text, ceiling) ==
    IF Len(text) > ceiling
    THEN SubSeq(text, 1, ceiling \div 2) \o Separator
         \o SubSeq(text, Len(text) - (ceiling \div 2) + 1, Len(text))
    ELSE text

\* the prompt of a call that got to its retry loop holds the trimmed text cut
\* to the ceiling
CutTo(ceiling) ==
    (call.pc \in {"attempt", "backoff"} \/ call.replies # <<>>)
        => call.sent = HeadTail(TrimSpace(call.text), ceiling)

\* the ceilings a summarizer may be configured with: the default and a lower one
Ceilings == {maxLen, maxLen \div 2}

\* C22: whatever ceiling the summarizer is configured with, a trimmed text
\* longer than the ceiling goes into the prompt as its first half-ceiling
\* characters, the separator, and its last half-ceiling characters, and a
\* trimmed text no longer than the ceiling goes in unchanged.
C22_CutToConfiguredCeiling == \A ceiling \in Ceilings : CutTo(ceiling)

\* the text holds nothing but white space
Blank(text) == \A i \in 1..Len(text) : text[i] \in Space

\* C23: a call of Summarize with a text that is empty, or holds nothing but
\* white space, returns an error in its first step, having made no request
\* and slept no time.
C23_BlankTextFailsFast ==
    (call.pc \notin {"unused", "idle"} /\ Blank(call.text))
        => /\ call.pc = "done"
           /\ call.err = "empty text"
           /\ call.summary = <<>>
           /\ call.replies = <<>>
           /\ call.sleeps = <<>>
           /\ call.sleep = 0

\* C23 witness: a call with a text of white space only has returned its error
C23_Witness ==
    /\ call.pc = "done"
    /\ call.text = <<"^J", " ">>
    /\ call.err = "empty text"

\* C24: a Job ends with the too-many-redirects error only when the server
\* answered with more than 10 redirects; a location whose final page comes
\* after exactly 10 redirects is not refused for its redirects.
C24_StoppedOnlyAfterTenRedirects ==
    \A c \in Calls : \A i \in 1..Len(published[c]) :
        published[c][i].Error = "redirects" => hops > 10

\* the place of a worker's position in the order of the steps of a Job
Rank(pc) ==
    CASE pc = "acquire" -> 1
      [] pc \in {"fetch", "check"} -> 2
      [] pc = "render" -> 3
      [] pc = "links" -> 4
      [] pc \in {"summarize", "attempt", "backoff"} -> 5
      [] pc = "publish" -> 6
      [] OTHER -> 0

\* the worker moves forward through the steps of its Job, to a later step
\* or within the step it is in
MovesForward(c, w) ==
    \E from \in {worker[c][w].pc} : \E to \in {worker'[c][w].pc} :
        \/ from = to /\ from \in {"links", "none", "exited"}
        \/ Rank(from) = 0 /\ to \in {"loop", "acquire", "publish", "exited"}
        \/ from = "publish" /\ to \in {"loop", "exited"}
        \/ Rank(from) > 0 /\ Rank(to) > Rank(from)
        \/ <<from, to>> \in {<<"fetch", "check">>, <<"summarize", "attempt">>,
                             <<"attempt", "backoff">>, <<"backoff", "attempt">>}

\* C25: a worker goes through the steps of a Job in the order permit, fetch,
\* render, links, summarize, publish, never back and never twice; a tick is
\* taken only by a worker waiting for its permit, a request is sent only by a
\* worker that took one, so that there are never more requests than permits;
\* the visited set changes only in the link step; Summarize runs and returns
\* only when the loop over the links is over; and a Result is published only
\* by a worker at its publish step.
C25_StepsInOrder ==
    [][/\ \A c \in Calls : \A w \in WorkerIds :
            worker'[c][w] # worker[c][w] => MovesForward(c, w)
       /\ \A c \in Calls :
            /\ acquired'[c] # acquired[c]
                => \E w \in WorkerIds : /\ worker[c][w].pc = "acquire"
                                        /\ worker'[c][w].pc = "fetch"
            /\ fetches'[c] # fetches[c]
                => \E w \in WorkerIds : /\ worker[c][w].pc = "fetch"
                                        /\ worker'[c][w].pc \in {"check", "publish"}
            /\ fetches'[c] <= acquired'[c]
            /\ summarized'[c] # summarized[c]
                => \E w \in WorkerIds : /\ worker[c][w].pc \in {"summarize", "attempt"}
                                        /\ worker[c][w].plinks = <<>>
                                        /\ worker'[c][w].pc = "publish"
            /\ published'[c] # published[c]
                => \E w \in WorkerIds : /\ worker[c][w].pc = "publish"
                                        /\ worker'[c][w].pc = "loop"
            /\ \A w \in WorkerIds :
                    worker'[c][w].pc \in {"summarize", "attempt", "backoff"}
                        => worker'[c][w].plinks = <<>>
       /\ visited' # visited
            => \E c \in Calls : \E w \in WorkerIds : worker[c][w].pc = "links"
      ]_vars

\* C25 witness: a Job that took its permit, sent its request, admitted a link
\* and was summarized has been published
C25_Witness ==
    \E c \in Calls :
        /\ acquired[c] = 1
        /\ fetches[c] = 1
        /\ summarized[c] = <<"nil">>
        /\ \E i \in 1..Len(published[c]) :
                /\ published[c][i].Links # <<>>
                /\ published[c][i].Summary # <<>>

\* C26: a Result published with an error has no content, no links and no
\* summary, and the visited set holds nothing from its Job; and the step that
\* publishes it cancels nothing, closes nothing, takes nothing from the jobs
\* channel, leaves every other worker as it was and sends its own worker
\* back to the head of its loop.
C26_FailedJobLeavesNoTrace ==
    [][\A c \in Calls :
        (/\ Len(published'[c]) = Len(published[c]) + 1
         /\ published'[c][Len(published'[c])].Error # "nil")
            => /\ \E r \in {published'[c][Len(published'[c])]} :
                    /\ r.Content = <<>>
                    /\ r.Links = <<>>
                    /\ r.Summary = <<>>
               /\ visited' = {}
               /\ admitCount' = admitCount
               /\ cancelled' = cancelled
               /\ jobs' = jobs
               /\ jobsClosed' = jobsClosed
               /\ closes' = closes
               /\ \E w \in WorkerIds :
                    /\ worker[c][w].pc = "publish"
                    /\ worker'[c][w].pc = "loop"
                    /\ \A d \in Calls : \A v \in WorkerIds :
                            <<d, v>> # <<c, w>> => worker'[d][v] = worker[d][v]
      ]_vars

\* C26 witness: in a pool of two workers a Result with an error was published
\* and delivered, and both workers are back at the head of their loop
C26_Witness ==
    \E c \in Calls :
        /\ config.MaxWorkers = 2
        /\ \E i \in 1..Len(delivered[c]) : delivered[c][i].Error = "status"
        /\ \A w \in WorkerIds : worker[c][w].pc = "loop"
====
